---- MODULE Spec2Model ----
(***************************************************************************)
(* The Growatt API client of growatt.py: hash_password, the date-string    *)
(* helper and the public operations of GrowattApi, each one HTTP exchange  *)
(* followed by JSON decoding and unwrapping of an envelope field.          *)
(*                                                                         *)
(* Python values are tagged records, so that values of different Python    *)
(* types are never compared field by field:                                *)
(*   JSON documents   [t |-> "null"], [t |-> "bool", b |-> ..], ...        *)
(*   call outcomes    [kind |-> "return", value |-> v]                     *)
(*                    [kind |-> "raise",  exc |-> "KeyError"]              *)
(* Library functions (hashlib.md5, json.loads, strftime, Enum membership)  *)
(* follow their documented behaviour; where that behaviour differs between *)
(* interpreter versions the model keeps every outcome.                     *)
(***************************************************************************)
EXTENDS Integers, Sequences, FiniteSets, TLC

VARIABLES pc, op, args, trace, response, outcome, sent

vars == <<pc, op, args, trace, response, outcome, sent>>

\* Number of HTTP requests one session issues in a behaviour.
MaxRequests == 2

-----------------------------------------------------------------------------
(* Python values *)

PyNone == [ty |-> "NoneType"]
PyStr(s) == [ty |-> "str", s |-> s]
PyInt(n) == [ty |-> "int", n |-> n]

Return(v) == [kind |-> "return", value |-> v]
Raise(e) == [kind |-> "raise", exc |-> e]

JNull == [t |-> "null"]
JBool(b) == [t |-> "bool", b |-> b]
JStr(s) == [t |-> "str", s |-> s]
JNum(n) == [t |-> "num", n |-> n]
JFloat(f) == [t |-> "float", f |-> f]
JList(l) == [t |-> "list", l |-> l]
JObj(o) == [t |-> "obj", o |-> o]

\* float('nan'), which json.loads yields for the bare literal NaN
JNaN == JFloat("nan")

\* bool(v) for a decoded JSON value
Truthy(v) ==
    CASE v.t = "null" -> FALSE
      [] v.t = "bool" -> v.b
      [] v.t = "str" -> v.s # ""
      [] v.t = "num" -> v.n # 0
      [] v.t = "float" -> TRUE
      [] v.t = "list" -> v.l # <<>>
      [] v.t = "obj" -> DOMAIN v.o # {}

\* v[key] for a string key: only a dict holding the key has it
getitem(v, key) ==
    IF v.t = "obj"
    THEN IF key \in DOMAIN v.o THEN Return(v.o[key]) ELSE Raise("KeyError")
    ELSE Raise("TypeError")

\* d.update({k1: v1, k2: v2})
dict_update(o, k1, v1, k2, v2) ==
    [k \in DOMAIN o \cup {k1, k2} |->
        IF k = k2 THEN v2 ELSE IF k = k1 THEN v1 ELSE o[k]]

-----------------------------------------------------------------------------
(* hash_password *)

\* hashlib.md5(p.encode('utf-8')).hexdigest() on the passwords of the model
md5_hexdigest(p) ==
    CASE p = "" -> "d41d8cd98f00b204e9800998ecf8427e"
      [] p = "password" -> "5f4dcc3b5aa765d61d8327deb882cf99"
      [] p = "a" -> "0cc175b9c0f1b6a831c399e269772661"
      [] p = "abc" -> "900150983cd24fb0d6963f7d28e17f72"
      [] p = "growatt" -> "6c649d2d285d62d30306182ed6863920"
      [] p = "letmein" -> "0d107d09f5bbe40cade3de5c71e9e9b7"
      [] p = "shine" -> "67c2c13e9cc0c312973c90245537fd04"
      [] p = "0cc175b9c0f1b6a831c399e269772661" -> "d7afde3e7059cd0a0fe09eec4b0008cd"

Passwords ==
    {"", "password", "a", "abc", "growatt", "letmein", "shine",
     "0cc175b9c0f1b6a831c399e269772661"}

\* s[i] with Python's 0-based index
CharAt(s, i) == SubSeq(s, i + 1, i + 1)

\* the loop body: if s[i] == '0': s = s[:i] + 'c' + s[i + 1:]
hash_step(s, i) ==
    IF CharAt(s, i) = "0"
    THEN SubSeq(s, 1, i) \o "c" \o SubSeq(s, i + 2, Len(s))
    ELSE s

\* a loop over every index, range(0, len(password_md5)), instead of every
\* second one
hash_stride_every_char(i) == i + 1

\* the index after i in range(0, len(password_md5), 2)
hash_stride(i) == i + 2

RECURSIVE hash_loop(_, _)
hash_loop(s, i) ==
    IF i >= Len(s) THEN s ELSE hash_loop(hash_step(s, i), hash_stride(i))

hash_password(password) == hash_loop(md5_hexdigest(password), 0)

-----------------------------------------------------------------------------
(* Timespan and the date-string helper *)

\* class Timespan(IntEnum): hour = 0, day = 1, month = 2
Timespan(name) ==
    [ty |-> "Timespan", name |-> name,
     value |-> CASE name = "hour" -> 0 [] name = "day" -> 1 [] name = "month" -> 2]

TimespanMembers == {Timespan("hour"), Timespan("day"), Timespan("month")}

\* what a caller can pass as timespan: a member, None, or a value of another type
TimespanArgs ==
    TimespanMembers \cup {PyNone, PyInt(1), PyInt(2), PyInt(7), PyStr("week")}

\* the calendar dates of the model; strftime's documented four-digit %Y
Dates ==
    {[y |-> 2024, m |-> 3, d |-> 15],
     [y |-> 2024, m |-> 12, d |-> 5],
     [y |-> 1999, m |-> 1, d |-> 31]}

DateArgs == Dates \cup {PyNone}

\* the clock reading taken when one is needed, and a mark when none is taken
Unread == [ty |-> "unread"]
Clock(date) == IF date = PyNone THEN Dates ELSE {Unread}

Digit(n) ==
    CASE n = 0 -> "0" [] n = 1 -> "1" [] n = 2 -> "2" [] n = 3 -> "3"
      [] n = 4 -> "4" [] n = 5 -> "5" [] n = 6 -> "6" [] n = 7 -> "7"
      [] n = 8 -> "8" [] n = 9 -> "9"

\* %m and %d: two digits, zero padded
Pad2(n) == Digit(n \div 10) \o Digit(n % 10)
\* %Y: four digits, zero padded
Pad4(n) == Pad2(n \div 100) \o Pad2(n % 100)

\* date.strftime('%Y-%m') and date.strftime('%Y-%m-%d')
strftime_Ym(date) == Pad4(date.y) \o "-" \o Pad2(date.m)
strftime_Ymd(date) == strftime_Ym(date) \o "-" \o Pad2(date.d)

\* The outcomes of `timespan in Timespan`. For a value that is no member the
\* interpreter version decides: False up to 3.7, TypeError from 3.8 to 3.11,
\* and from 3.12 on True exactly for the integer value of a member.
in_Timespan(timespan) ==
    IF timespan.ty = "Timespan" THEN {"True"}
    ELSE IF timespan.ty = "int" /\ timespan.n \in {0, 1, 2}
         THEN {"False", "TypeError", "True"}
         ELSE {"False", "TypeError"}

\* timespan == Timespan.month, an IntEnum comparison
is_month(timespan) ==
    \/ timespan = Timespan("month")
    \/ timespan.ty = "int" /\ timespan.n = 2

\* a helper that formats every timespan as a day
format_always_day(timespan, date) == strftime_Ymd(date)

\* lines 51-53: the format the timespan selects
format_date(timespan, date) ==
    IF is_month(timespan) THEN strftime_Ym(date) ELSE strftime_Ymd(date)

\* __get_date_string(timespan, date): the set of its outcomes, the clock
\* reading `now` standing for datetime.datetime.now()
get_date_string(timespan, date, now) ==
    LET d == IF date = PyNone THEN now ELSE date
        checks == IF timespan = PyNone THEN {"True"} ELSE in_Timespan(timespan)
    IN  {CASE c = "True" -> Return(format_date(timespan, d))
           [] c = "False" -> Raise("AssertionError")
           [] c = "TypeError" -> Raise("TypeError") : c \in checks}

\* timespan.value: only a member of the enumeration has the attribute
timespan_value(timespan) ==
    IF timespan.ty = "Timespan" THEN Return(timespan.value)
    ELSE Raise("AttributeError")

-----------------------------------------------------------------------------
(* The transport and the response bodies *)

Absent == [t |-> "absent"]

\* the dict with the fields of r that are present
Strip(r) == [k \in {k \in DOMAIN r : r[k] # Absent} |-> r[k]]

\* the `user` objects a login response carries
FullUser == JObj([parentUserId |-> JStr("7"), rightlevel |-> JStr("1")])
PartialUser == JObj([parentUserId |-> JStr("7")])

\* the `back` objects of the model: each field present or not
BackObjects ==
    {JObj(Strip(r)) :
        r \in [success : {Absent, JBool(TRUE), JBool(FALSE), JStr("ok")},
               user : {Absent, FullUser, PartialUser, JNull},
               userId : {Absent, JStr("old")}]}

BackPayloads == BackObjects \cup {JNull, JStr("x"), JNaN, JList(<<>>)}
ObjPayloads == {JObj([soc |-> JNum(55)]), JNaN}
DeviceLists == {JList(<<JObj([deviceSn |-> JStr("d1")])>>), JNull}

\* what json.loads can yield for a response body
Documents ==
    {JObj(Strip(r)) :
        r \in [back : BackPayloads \cup {Absent},
               obj : ObjPayloads \cup {Absent},
               deviceList : DeviceLists \cup {Absent}]}
    \cup {JNull, JNaN, JList(<<>>), JStr("x"), JNum(1)}

\* response.content: bytes that are no UTF-8, text json.loads rejects, and
\* text json.loads accepts, named by the document it yields
Undecodable == [c |-> "undecodable"]
Malformed == [c |-> "malformed"]
Text(doc) == [c |-> "text", doc |-> doc]

Contents == {Undecodable, Malformed} \cup {Text(doc) : doc \in Documents}

\* json.loads yields a float nan only for the literal NaN, which it accepts
\* though RFC 8259 has no such literal
RECURSIVE HasNonFinite(_)
HasNonFinite(v) ==
    \/ v.t = "float"
    \/ v.t = "obj" /\ \E k \in DOMAIN v.o : HasNonFinite(v.o[k])
    \/ v.t = "list" /\ \E i \in DOMAIN v.l : HasNonFinite(v.l[i])

\* the body is a JSON text in the sense of RFC 8259
ValidJSON(content) == content.c = "text" /\ ~HasNonFinite(content.doc)

\* session.get / session.post: the call raises, or returns a response
NoResponse == [kind |-> "none"]
Response(content) == [kind |-> "response", content |-> content]
Transport == {Raise("ConnectionError")} \cup {Response(c) : c \in Contents}

\* json.loads(content.decode('utf-8'))
json_loads(content) ==
    CASE content.c = "undecodable" -> Raise("UnicodeDecodeError")
      [] content.c = "malformed" -> Raise("JSONDecodeError")
      [] content.c = "text" -> Return(content.doc)

\* json.loads(response.content.decode('utf-8')) after the transport outcome t:
\* an exception of the transport propagates
json_body(t) == IF t.kind = "raise" THEN t ELSE json_loads(t.content)

\* r[key] where r is the outcome of the expression subscripted
subscript(r, key) == IF r.kind = "raise" THEN r ELSE getitem(r.value, key)

get_url(page) == "https://server-api.growatt.com/" \o page

NoParams == <<>>

Get(page, params, allow_redirects) ==
    [ev |-> "request", verb |-> "GET", url |-> get_url(page), params |-> params,
     data |-> NoParams, allow_redirects |-> allow_redirects]

Post(page, params, data) ==
    [ev |-> "request", verb |-> "POST", url |-> get_url(page), params |-> params,
     data |-> data, allow_redirects |-> TRUE]

DeprecationWarning == [ev |-> "warning", category |-> "DeprecationWarning"]

\* a transport call that is repeated once when it raised
send_with_retry(req, t) == IF t.kind = "raise" THEN <<req, req>> ELSE <<req>>

\* the requests one session.get / session.post puts on the wire
send(req, t) == <<req>>

Requests(tr) == {i \in DOMAIN tr : tr[i].ev = "request"}

-----------------------------------------------------------------------------
(* The client *)

Usernames == {"alice"}
UserIds == {"7"}
PlantIds == {"p1"}
DeviceIds == {"sn1"}
OptionalPlantIds == {PyNone, PyStr(""), PyStr("p1")}

Init ==
    /\ pc = "idle"
    /\ op = "none"
    /\ args = <<>>
    /\ trace = <<>>
    /\ response = NoResponse
    /\ outcome = NoResponse
    /\ sent = 0

\* the caller is between two calls
Idle == pc = "idle"

\* one call of operation o with arguments a: the events tr it caused, the
\* transport outcome resp it met and its own outcome out
Finish(o, a, tr, resp, out) ==
    /\ sent + Cardinality(Requests(tr)) <= MaxRequests
    /\ pc' = "returned"
    /\ op' = o
    /\ args' = a
    /\ trace' = tr
    /\ response' = resp
    /\ outcome' = out
    /\ sent' = sent + Cardinality(Requests(tr))

\* a call that issues the request req after the events pre
Call(o, a, pre, req, t, out) == Finish(o, a, pre \o send(req, t), t, out)

\* a call that raises before it reaches the transport
Rejected(o, a, exc) == Finish(o, a, <<>>, NoResponse, exc)

\* a login that hashes whatever it is given
login_password_always_hashed(password, is_password_hashed) ==
    hash_password(password)

\* lines 61-62: the password login sends
login_password(password, is_password_hashed) ==
    IF ~is_password_hashed THEN hash_password(password) ELSE password

\* a login that adds the two keys whatever `success` says
login_data_always_augmented(back) ==
    IF back.kind = "raise" THEN back
    ELSE LET data == back.value
             uid == subscript(getitem(data, "user"), "parentUserId")
             lvl == subscript(getitem(data, "user"), "rightlevel")
         IN  IF uid.kind = "raise" THEN uid
             ELSE IF lvl.kind = "raise" THEN lvl
             ELSE Return(JObj(dict_update(data.o, "userId", uid.value,
                                          "userLevel", lvl.value)))

\* a login that takes both keys from parentUserId
login_data_level_from_id(back) ==
    IF back.kind = "raise" THEN back
    ELSE LET data == back.value
             success == getitem(data, "success")
             uid == subscript(getitem(data, "user"), "parentUserId")
         IN  IF success.kind = "raise" THEN success
             ELSE IF ~Truthy(success.value) THEN Return(data)
             ELSE IF uid.kind = "raise" THEN uid
             ELSE Return(JObj(dict_update(data.o, "userId", uid.value,
                                          "userLevel", uid.value)))

\* lines 68-74, from the outcome of json.loads(...)['back']
login_data(back) ==
    IF back.kind = "raise" THEN back
    ELSE LET data == back.value
             success == getitem(data, "success")
             uid == subscript(getitem(data, "user"), "parentUserId")
             lvl == subscript(getitem(data, "user"), "rightlevel")
         IN  IF success.kind = "raise" THEN success
             ELSE IF ~Truthy(success.value) THEN Return(data)
             ELSE IF uid.kind = "raise" THEN uid
             ELSE IF lvl.kind = "raise" THEN lvl
             ELSE Return(JObj(dict_update(data.o, "userId", uid.value,
                                          "userLevel", lvl.value)))

login ==
    /\ Idle
    /\ \E username \in Usernames, password \in Passwords,
          is_password_hashed \in BOOLEAN, t \in Transport :
           Call("login",
                [username |-> username, password |-> password,
                 is_password_hashed |-> is_password_hashed],
                <<>>,
                Post("newTwoLoginAPI.do", NoParams,
                     [userName |-> username,
                      password |-> login_password(password, is_password_hashed),
                      NewLogin |-> 1]),
                t, login_data(subscript(json_body(t), "back")))

plant_list ==
    /\ Idle
    /\ \E user_id \in UserIds, t \in Transport :
           Call("plant_list", [user_id |-> user_id], <<>>,
                Get("PlantListAPI.do", [userId |-> user_id], FALSE),
                t, subscript(json_body(t), "back"))

new_plant_list ==
    /\ Idle
    /\ \E user_id \in UserIds, t \in Transport :
           Call("new_plant_list", [user_id |-> user_id], <<>>,
                Get("newPlantListAPI.do", [userId |-> user_id], FALSE),
                t, subscript(json_body(t), "back"))

\* a plant_detail that sends the timespan as given and validates nothing
plant_detail_unchecked ==
    /\ Idle
    /\ \E plant_id \in PlantIds, timespan \in TimespanArgs, date \in DateArgs :
         \E now \in Clock(date), t \in Transport :
           Call("plant_detail",
                [plant_id |-> plant_id, timespan |-> timespan, date |-> date,
                 now |-> now],
                <<>>,
                Get("newPlantDetailAPI.do",
                    [plantId |-> plant_id, type |-> timespan,
                     date |-> format_date(timespan, IF date = PyNone THEN now ELSE date)],
                    TRUE),
                t, subscript(json_body(t), "back"))

plant_detail ==
    /\ Idle
    /\ \E plant_id \in PlantIds, timespan \in TimespanArgs, date \in DateArgs :
         \E now \in Clock(date) :
           \E date_str \in get_date_string(timespan, date, now) :
             LET a == [plant_id |-> plant_id, timespan |-> timespan, date |-> date,
                       now |-> now]
                 type == timespan_value(timespan)
             IN  IF date_str.kind = "raise" THEN Rejected("plant_detail", a, date_str)
                 ELSE IF type.kind = "raise" THEN Rejected("plant_detail", a, type)
                 ELSE \E t \in Transport :
                        Call("plant_detail", a, <<>>,
                             Get("newPlantDetailAPI.do",
                                 [plantId |-> plant_id, type |-> type.value,
                                  date |-> date_str.value],
                                 TRUE),
                             t, subscript(json_body(t), "back"))

inverter_data ==
    /\ Idle
    /\ \E inverter_id \in DeviceIds, date \in DateArgs :
         \E now \in Clock(date), t \in Transport :
           \E date_str \in get_date_string(Timespan("hour"),
                                           IF date = PyNone THEN now ELSE date, now) :
             Call("inverter_data",
                  [inverter_id |-> inverter_id, date |-> date, now |-> now], <<>>,
                  Get("newInverterAPI.do",
                      [op |-> "getInverterData", id |-> inverter_id, type |-> 1,
                       date |-> date_str.value],
                      TRUE),
                  t, json_body(t))

inverter_detail ==
    /\ Idle
    /\ \E inverter_id \in DeviceIds, t \in Transport :
           Call("inverter_detail", [inverter_id |-> inverter_id], <<>>,
                Get("newInverterAPI.do",
                    [op |-> "getInverterDetailData", inverterId |-> inverter_id],
                    TRUE),
                t, json_body(t))

inverter_detail_two ==
    /\ Idle
    /\ \E inverter_id \in DeviceIds, t \in Transport :
           Call("inverter_detail_two", [inverter_id |-> inverter_id], <<>>,
                Get("newInverterAPI.do",
                    [op |-> "getInverterDetailData_two", inverterId |-> inverter_id],
                    TRUE),
                t, json_body(t))

tlx_data ==
    /\ Idle
    /\ \E tlx_id \in DeviceIds, date \in DateArgs :
         \E now \in Clock(date), t \in Transport :
           \E date_str \in get_date_string(PyNone, date, now) :
             Call("tlx_data", [tlx_id |-> tlx_id, date |-> date, now |-> now], <<>>,
                  Get("TlxApi.do",
                      [op |-> "getTlxData", id |-> tlx_id, type |-> 1,
                       date |-> date_str.value],
                      TRUE),
                  t, json_body(t))

tlx_detail ==
    /\ Idle
    /\ \E tlx_id \in DeviceIds, t \in Transport :
           Call("tlx_detail", [tlx_id |-> tlx_id], <<>>,
                Get("TlxApi.do", [op |-> "getTlxDetailData", id |-> tlx_id], TRUE),
                t, json_body(t))

\* lines 149-151: plantId is sent when plant_id is truthy
mix_info_params(mix_id, plant_id) ==
    IF plant_id.ty = "str" /\ plant_id.s # ""
    THEN [op |-> "getMixInfo", mixId |-> mix_id, plantId |-> plant_id.s]
    ELSE [op |-> "getMixInfo", mixId |-> mix_id]

mix_info ==
    /\ Idle
    /\ \E mix_id \in DeviceIds, plant_id \in OptionalPlantIds, t \in Transport :
           Call("mix_info", [mix_id |-> mix_id, plant_id |-> plant_id], <<>>,
                Get("newMixApi.do", mix_info_params(mix_id, plant_id), TRUE),
                t, subscript(json_body(t), "obj"))

mix_totals ==
    /\ Idle
    /\ \E mix_id \in DeviceIds, plant_id \in PlantIds, t \in Transport :
           Call("mix_totals", [mix_id |-> mix_id, plant_id |-> plant_id], <<>>,
                Post("newMixApi.do",
                     [op |-> "getEnergyOverview", mixId |-> mix_id,
                      plantId |-> plant_id],
                     NoParams),
                t, subscript(json_body(t), "obj"))

mix_system_status ==
    /\ Idle
    /\ \E mix_id \in DeviceIds, plant_id \in PlantIds, t \in Transport :
           Call("mix_system_status", [mix_id |-> mix_id, plant_id |-> plant_id], <<>>,
                Post("newMixApi.do",
                     [op |-> "getSystemStatus_KW", mixId |-> mix_id,
                      plantId |-> plant_id],
                     NoParams),
                t, subscript(json_body(t), "obj"))

mix_detail ==
    /\ Idle
    /\ \E mix_id \in DeviceIds, plant_id \in PlantIds, timespan \in TimespanArgs,
          date \in DateArgs :
         \E now \in Clock(date) :
           \E date_str \in get_date_string(timespan, date, now) :
             LET a == [mix_id |-> mix_id, plant_id |-> plant_id,
                       timespan |-> timespan, date |-> date, now |-> now]
                 type == timespan_value(timespan)
             IN  IF date_str.kind = "raise" THEN Rejected("mix_detail", a, date_str)
                 ELSE IF type.kind = "raise" THEN Rejected("mix_detail", a, type)
                 ELSE \E t \in Transport :
                        Call("mix_detail", a, <<>>,
                             Post("newMixApi.do",
                                  [op |-> "getEnergyProdAndCons_KW",
                                   plantId |-> plant_id, mixId |-> mix_id,
                                   type |-> type.value, date |-> date_str.value],
                                  NoParams),
                             t, subscript(json_body(t), "obj"))

dashboard_data ==
    /\ Idle
    /\ \E plant_id \in PlantIds, timespan \in TimespanArgs, date \in DateArgs :
         \E now \in Clock(date) :
           \E date_str \in get_date_string(timespan, date, now) :
             LET a == [plant_id |-> plant_id, timespan |-> timespan, date |-> date,
                       now |-> now]
                 type == timespan_value(timespan)
             IN  IF date_str.kind = "raise" THEN Rejected("dashboard_data", a, date_str)
                 ELSE IF type.kind = "raise" THEN Rejected("dashboard_data", a, type)
                 ELSE \E t \in Transport :
                        Call("dashboard_data", a, <<>>,
                             Post("newPlantAPI.do",
                                  [action |-> "getEnergyStorageData",
                                   date |-> date_str.value, type |-> type.value,
                                   plantId |-> plant_id],
                                  NoParams),
                             t, json_body(t))

storage_detail ==
    /\ Idle
    /\ \E storage_id \in DeviceIds, t \in Transport :
           Call("storage_detail", [storage_id |-> storage_id], <<>>,
                Get("StorageAPI.do",
                    [op |-> "getStorageInfo_sacolar", storageId |-> storage_id],
                    TRUE),
                t, json_body(t))

storage_params ==
    /\ Idle
    /\ \E storage_id \in DeviceIds, t \in Transport :
           Call("storage_params", [storage_id |-> storage_id], <<>>,
                Get("StorageAPI.do",
                    [op |-> "getStorageParams_sacolar", storageId |-> storage_id],
                    TRUE),
                t, json_body(t))

storage_energy_overview ==
    /\ Idle
    /\ \E plant_id \in PlantIds, storage_id \in DeviceIds, t \in Transport :
           Call("storage_energy_overview",
                [plant_id |-> plant_id, storage_id |-> storage_id], <<>>,
                Post("StorageAPI.do?op=getEnergyOverviewData_sacolar",
                     [plantId |-> plant_id, storageSn |-> storage_id],
                     NoParams),
                t, subscript(json_body(t), "obj"))

\* the request plant_info sends, lines 234-239
plant_info_request(plant_id) ==
    Get("TwoPlantAPI.do",
        [op |-> "getAllDeviceList", plantId |-> plant_id, pageNum |-> 1,
         pageSize |-> 1],
        TRUE)

\* a device_list that returns the first device instead of the list
device_list_first(info) ==
    LET devices == subscript(info, "deviceList")
    IN  IF devices.kind = "raise" THEN devices
        ELSE IF devices.value.t = "list" /\ devices.value.l # <<>>
             THEN Return(devices.value.l[1])
             ELSE Raise("IndexError")

\* line 230, from the outcome of plant_info
device_list_result(info) == subscript(info, "deviceList")

\* an alias that delegates without a warning
inverter_list_events_silent == <<>>

\* lines 222-225: what inverter_list does before it delegates
inverter_list_events == <<DeprecationWarning>>

inverter_list ==
    /\ Idle
    /\ \E plant_id \in PlantIds, t \in Transport :
           Call("inverter_list", [plant_id |-> plant_id], inverter_list_events,
                plant_info_request(plant_id),
                t, device_list_result(json_body(t)))

device_list ==
    /\ Idle
    /\ \E plant_id \in PlantIds, t \in Transport :
           Call("device_list", [plant_id |-> plant_id], <<>>,
                plant_info_request(plant_id),
                t, device_list_result(json_body(t)))

plant_info ==
    /\ Idle
    /\ \E plant_id \in PlantIds, t \in Transport :
           Call("plant_info", [plant_id |-> plant_id], <<>>,
                plant_info_request(plant_id),
                t, json_body(t))

get_plant_settings ==
    /\ Idle
    /\ \E plant_id \in PlantIds, t \in Transport :
           Call("get_plant_settings", [plant_id |-> plant_id], <<>>,
                Get("PlantAPI.do", [op |-> "getPlant", plantId |-> plant_id], TRUE),
                t, json_body(t))

\* the caller takes the outcome and goes on to its next call
NextCall ==
    /\ pc = "returned"
    /\ pc' = "idle"
    /\ op' = "none"
    /\ args' = <<>>
    /\ trace' = <<>>
    /\ response' = NoResponse
    /\ outcome' = NoResponse
    /\ UNCHANGED sent

Next ==
    \/ login
    \/ plant_list
    \/ new_plant_list
    \/ plant_detail
    \/ inverter_data
    \/ inverter_detail
    \/ inverter_detail_two
    \/ tlx_data
    \/ tlx_detail
    \/ mix_info
    \/ mix_totals
    \/ mix_system_status
    \/ mix_detail
    \/ dashboard_data
    \/ storage_detail
    \/ storage_params
    \/ storage_energy_overview
    \/ inverter_list
    \/ device_list
    \/ plant_info
    \/ get_plant_settings
    \/ NextCall

Spec == Init /\ [][Next]_vars

-----------------------------------------------------------------------------
(* Vocabulary of the properties *)

Returned == pc = "returned"

\* the transport returned a response whose body json.loads accepts
GotText == response.kind = "response" /\ response.content.c = "text"
Doc == response.content.doc

\* the decoded body is a dict holding `key`
DocHas(key) == GotText /\ Doc.t = "obj" /\ key \in DOMAIN Doc.o

Back == Doc.o.back

\* back['user'][key]
UserField(key) == subscript(getitem(Back, "user"), key)

\* a login whose response holds a `back` object with the given `success`
LoginSuccessIs(b) ==
    /\ Returned /\ op = "login" /\ DocHas("back")
    /\ Back.t = "obj" /\ "success" \in DOMAIN Back.o
    /\ Back.o.success = JBool(b)

AddedKeys == {"userId", "userLevel"}

-----------------------------------------------------------------------------
(* C1 *)

\* the login response holds what C1 speaks of: back.success is true and
\* back.user is an object holding parentUserId and rightlevel
C1_Case ==
    /\ LoginSuccessIs(TRUE)
    /\ UserField("parentUserId").kind = "return"
    /\ UserField("rightlevel").kind = "return"

\* C1 as stated: whenever back.success is true, login returns back with
\* userId = back.user.parentUserId and userLevel = back.user.rightlevel added,
\* and every original key of back keeps its original value.
C1_Original ==
    C1_Case =>
        /\ outcome.kind = "return"
        /\ outcome.value.t = "obj"
        /\ AddedKeys \subseteq DOMAIN outcome.value.o
        /\ outcome.value.o.userId = UserField("parentUserId").value
        /\ outcome.value.o.userLevel = UserField("rightlevel").value
        /\ \A k \in DOMAIN Back.o :
              k \in DOMAIN outcome.value.o /\ outcome.value.o[k] = Back.o[k]

\* C1 amended: whenever back.success is true and back.user is an object holding
\* parentUserId and rightlevel, login returns an object whose keys are those of
\* back plus userId and userLevel, with userId = back.user.parentUserId,
\* userLevel = back.user.rightlevel, and every key of back other than userId
\* and userLevel at its original value.
C1_Amended ==
    C1_Case
    => /\ outcome.kind = "return"
       /\ outcome.value.t = "obj"
       /\ DOMAIN outcome.value.o = DOMAIN Back.o \cup AddedKeys
       /\ outcome.value.o.userId = UserField("parentUserId").value
       /\ outcome.value.o.userLevel = UserField("rightlevel").value
       /\ \A k \in DOMAIN Back.o \ AddedKeys : outcome.value.o[k] = Back.o[k]

\* a successful login whose back object already held a userId
C1_Witness ==
    /\ LoginSuccessIs(TRUE)
    /\ Back.o = [success |-> JBool(TRUE), user |-> FullUser, userId |-> JStr("old")]
    /\ outcome =
         Return(JObj([success |-> JBool(TRUE), user |-> FullUser,
                      userId |-> JStr("7"), userLevel |-> JStr("1")]))

-----------------------------------------------------------------------------
(* C2 *)

\* C2 as stated: whenever back.success is false, login does not return: it
\* raises an AuthenticationError.
C2_Original ==
    LoginSuccessIs(FALSE) =>
        outcome.kind = "raise" /\ outcome.exc = "AuthenticationError"

\* C2 amended: whenever back.success is false, login raises nothing and returns
\* the back object as received, with no userId or userLevel added.
C2_Amended == LoginSuccessIs(FALSE) => outcome = Return(Back)

\* a failed login that carries a complete user object and returns normally
C2_Witness ==
    /\ LoginSuccessIs(FALSE)
    /\ Back.o = [success |-> JBool(FALSE), user |-> FullUser]
    /\ outcome.kind = "return"
    /\ "userId" \notin DOMAIN outcome.value.o

-----------------------------------------------------------------------------
(* C3 and C4: the unwrap table of section 4.2 *)

BackOps == {"login", "plant_list", "new_plant_list", "plant_detail"}
ObjOps ==
    {"mix_info", "mix_totals", "mix_system_status", "mix_detail",
     "storage_energy_overview"}
DeviceListOps == {"device_list"}
WholeBodyOps ==
    {"inverter_data", "inverter_detail", "inverter_detail_two", "tlx_data",
     "tlx_detail", "dashboard_data", "storage_detail", "storage_params",
     "plant_info", "get_plant_settings"}

FieldOps == BackOps \cup ObjOps \cup DeviceListOps

UnwrapField(o) ==
    CASE o \in BackOps -> "back"
      [] o \in ObjOps -> "obj"
      [] o \in DeviceListOps -> "deviceList"

\* the operation is tabulated and the transport returned a valid JSON body
\* that holds the operation's unwrap field, if it has one
TableCase ==
    /\ Returned
    /\ response.kind = "response"
    /\ ValidJSON(response.content)
    /\ \/ op \in WholeBodyOps
       \/ op \in FieldOps /\ DocHas(UnwrapField(op))

\* the sub-object the table names
TableValue == IF op \in WholeBodyOps THEN Doc ELSE Doc.o[UnwrapField(op)]


\* what login makes of a back object that holds `success`
LoginValue ==
    IF ~Truthy(Back.o.success) THEN Back
    ELSE JObj([k \in DOMAIN Back.o \cup AddedKeys |->
                 CASE k = "userId" -> UserField("parentUserId").value
                   [] k = "userLevel" -> UserField("rightlevel").value
                   [] OTHER -> Back.o[k]])

\* login can build its result: back is an object holding `success`, and
\* holding user.parentUserId and user.rightlevel when success is truthy
LoginCase ==
    /\ Back.t = "obj" /\ "success" \in DOMAIN Back.o
    /\ Truthy(Back.o.success) =>
          /\ UserField("parentUserId").kind = "return"
          /\ UserField("rightlevel").kind = "return"

DecodeErrors == {"UnicodeDecodeError", "JSONDecodeError", "KeyError", "TypeError"}

\* C4 as stated: a response body that is not valid JSON, or is valid JSON
\* without the operation's unwrap field, makes the operation fail with a
\* decode or shape error; the operation returns nothing.
C4_Claim ==
    /\ Returned
    /\ response.kind = "response"
    /\ \/ ~ValidJSON(response.content)
       \/ op \in FieldOps /\ ~DocHas(UnwrapField(op))
    => outcome.kind = "raise" /\ outcome.exc \in DecodeErrors

-----------------------------------------------------------------------------
(* C5 and C6: the password login sends *)

\* the length of an MD5 hexdigest
DigestLen == 32

HexChars ==
    {"0", "1", "2", "3", "4", "5", "6", "7", "8", "9", "a", "b", "c", "d", "e", "f"}

\* the `password` parameter of the login request
SentPassword == trace[1].data.password

LoginSent == Returned /\ op = "login" /\ Requests(trace) # {}

\* C5: hash_password(p) has the 32 characters of the digest d of p, except that
\* a '0' at an even index is 'c'; every character is a lowercase hexadecimal
\* digit and no even index holds '0'.
C5_Theorem ==
    LoginSent /\ ~args.is_password_hashed =>
        LET d == md5_hexdigest(args.password)
            h == SentPassword
        IN  /\ Len(d) = DigestLen
            /\ Len(h) = DigestLen
            /\ \A i \in 0 .. DigestLen - 1 :
                  /\ CharAt(h, i) \in HexChars
                  /\ CharAt(h, i) =
                        IF i % 2 = 0 /\ CharAt(d, i) = "0" THEN "c" ELSE CharAt(d, i)
                  /\ i % 2 = 0 => CharAt(h, i) # "0"

\* the digest of the empty password has '0' at the even index 10 and at the odd
\* index 11: the first is replaced, the second is kept
C5_Witness ==
    /\ LoginSent /\ ~args.is_password_hashed
    /\ args.password = ""
    /\ CharAt(md5_hexdigest(args.password), 10) = "0"
    /\ CharAt(md5_hexdigest(args.password), 11) = "0"
    /\ CharAt(SentPassword, 10) = "c"
    /\ CharAt(SentPassword, 11) = "0"

\* C6: login sends hash_password(password) when the already-hashed flag is
\* false, and the caller's password unchanged when it is true.
C6_Theorem ==
    LoginSent =>
        SentPassword =
            IF args.is_password_hashed THEN args.password
            ELSE hash_password(args.password)

\* a pre-hashed password with '0' at index 0 goes out as given
C6_Witness ==
    /\ LoginSent /\ args.is_password_hashed
    /\ args.password = "0cc175b9c0f1b6a831c399e269772661"
    /\ SentPassword = "0cc175b9c0f1b6a831c399e269772661"
    /\ SentPassword # hash_password(args.password)

-----------------------------------------------------------------------------
(* C7 and C8: dates and timespans *)

TimespanOps == {"plant_detail", "mix_detail", "dashboard_data"}
DateOps == TimespanOps \cup {"inverter_data", "tlx_data"}

\* the timespan the date-string helper was called with
HelperTimespan ==
    CASE op \in TimespanOps -> args.timespan
      [] op = "inverter_data" -> Timespan("hour")
      [] op = "tlx_data" -> PyNone

\* the date the helper formats: the argument, or the clock when there is none
HelperDate == IF args.date = PyNone THEN args.now ELSE args.date

\* the `date` parameter of the request
SentDate == trace[1].params.date

DateSent == Returned /\ op \in DateOps /\ Requests(trace) # {}

DigitChars == {"0", "1", "2", "3", "4", "5", "6", "7", "8", "9"}

DigitValue(c) ==
    CASE c = "0" -> 0 [] c = "1" -> 1 [] c = "2" -> 2 [] c = "3" -> 3
      [] c = "4" -> 4 [] c = "5" -> 5 [] c = "6" -> 6 [] c = "7" -> 7
      [] c = "8" -> 8 [] c = "9" -> 9

\* the characters of s from index `from` up to index `to` are decimal digits
\* that read as n
Reads(s, from, to, n) ==
    /\ \A i \in from .. to : CharAt(s, i) \in DigitChars
    /\ LET RECURSIVE Value(_)
           Value(i) ==
               IF i < from THEN 0 ELSE 10 * Value(i - 1) + DigitValue(CharAt(s, i))
       IN  Value(to) = n

\* s is the date as YYYY-MM
IsYearMonth(s, date) ==
    /\ Len(s) = 7
    /\ Reads(s, 0, 3, date.y)
    /\ CharAt(s, 4) = "-"
    /\ Reads(s, 5, 6, date.m)

\* s is the date as YYYY-MM-DD
IsYearMonthDay(s, date) ==
    /\ Len(s) = 10
    /\ IsYearMonth(SubSeq(s, 1, 7), date)
    /\ CharAt(s, 7) = "-"
    /\ Reads(s, 8, 9, date.d)

\* C7: for a date with a four-digit year and a timespan that is unspecified,
\* hour, day or month, the helper returns YYYY-MM for month and YYYY-MM-DD
\* otherwise; for 2024-03-15 these are "2024-03" and "2024-03-15".
C7_Theorem ==
    DateSent /\ HelperTimespan \in TimespanMembers \cup {PyNone} =>
        /\ IF HelperTimespan = Timespan("month")
           THEN IsYearMonth(SentDate, HelperDate)
           ELSE IsYearMonthDay(SentDate, HelperDate)
        /\ HelperDate = [y |-> 2024, m |-> 3, d |-> 15] =>
              SentDate = IF HelperTimespan = Timespan("month")
                         THEN "2024-03" ELSE "2024-03-15"

\* plant_detail for the month of 2024-03-15, the date taken from the clock
C7_Witness ==
    /\ DateSent /\ op = "plant_detail"
    /\ args.timespan = Timespan("month")
    /\ args.date = PyNone
    /\ args.now = [y |-> 2024, m |-> 3, d |-> 15]
    /\ SentDate = "2024-03"

\* C8: plant_detail, mix_detail and dashboard_data called with a timespan that
\* is no member of the enumeration raise before any request is issued.
C8_Theorem ==
    Returned /\ op \in TimespanOps /\ args.timespan \notin TimespanMembers =>
        /\ outcome.kind = "raise"
        /\ Requests(trace) = {}
        /\ response = NoResponse

\* mix_detail refuses the integer 2, the code of month, though it is no member
C8_Witness ==
    /\ Returned /\ op = "mix_detail"
    /\ args.timespan = PyInt(2)
    /\ outcome = Raise("AttributeError")
    /\ trace = <<>>

-----------------------------------------------------------------------------
(* C9: device_list and its deprecated alias *)

\* C9: for a plantInfo payload holding deviceList, device_list and
\* inverter_list both return that field; each issues the request of plant_info,
\* and inverter_list emits a DeprecationWarning before it.
C9_Theorem ==
    Returned /\ op \in {"device_list", "inverter_list"} /\ Requests(trace) # {} =>
        /\ DocHas("deviceList") => outcome = Return(Doc.o.deviceList)
        /\ Len(trace) = IF op = "inverter_list" THEN 2 ELSE 1
        /\ trace[Len(trace)] = plant_info_request(args.plant_id)
        /\ op = "inverter_list" => trace[1] = DeprecationWarning

\* the alias warns, delegates and returns the device list of the payload
C9_Witness ==
    /\ Returned /\ op = "inverter_list"
    /\ DocHas("deviceList")
    /\ Doc.o.deviceList.t = "list"
    /\ trace = <<DeprecationWarning, plant_info_request(args.plant_id)>>
    /\ outcome = Return(Doc.o.deviceList)

-----------------------------------------------------------------------------
(* C10: one request per call *)

\* the call was refused for its timespan before it reached the transport
RefusedTimespan ==
    /\ op \in TimespanOps
    /\ args.timespan \notin TimespanMembers
    /\ outcome.kind = "raise"
    /\ response = NoResponse

\* C10 as stated: every call issues exactly one HTTP request, whether it ends
\* in a result or in a failure.
C10_Original == Returned => Cardinality(Requests(trace)) = 1

\* what a finished call has done
OneExchange ==
    /\ Cardinality(Requests(trace)) <= 1
    /\ Requests(trace) = {} <=> RefusedTimespan
    /\ Requests(trace) # {} => response # NoResponse
    /\ response.kind = "raise" => outcome = response
    /\ response.kind = "response" /\ json_loads(response.content).kind = "raise"
          => outcome = json_loads(response.content)

\* C10 amended: every call issues at most one HTTP request, and exactly one
\* unless it is a plant_detail, mix_detail or dashboard_data call refused for
\* its timespan; the session's request count grows by that number, and a
\* failure of the transport or of decoding is the outcome of the call.
C10_Amended ==
    [][/\ sent' - sent \in {0, 1}
       /\ Returned' => /\ OneExchange'
                       /\ sent' - sent = Cardinality(Requests(trace'))]_vars

\* a call whose transport failed: one request, the failure handed on
C10_Witness ==
    /\ Returned /\ op = "mix_totals"
    /\ response = Raise("ConnectionError")
    /\ outcome = Raise("ConnectionError")
    /\ Cardinality(Requests(trace)) = 1
    /\ sent = MaxRequests

====
